---- MODULE Spec2Model ----
(***************************************************************************)
(* A model of the account, password-reset and subscription-limit code of   *)
(* the procurement platform (src/auth.py, src/setup_test_users.py,         *)
(* src/admin_dashboard.py, src/app.py) and of the branding, quote, image   *)
(* and suggestion handlers of its pages (src/custom_branding.py,           *)
(* src/product_sourcing.py, src/ai_suggestions.py, src/image_gen.py).      *)
(*                                                                         *)
(* The hosted store is a set of tables of rows, a generic record store     *)
(* with no rule of its own about the rows it holds.  Every call            *)
(* supabase.table(..)...execute() is one atomic step of the store; a       *)
(* handler that makes several calls is a sequence of steps of the caller   *)
(* (pc, loc), so that callers interleave between their store calls.        *)
(* Time is the wall clock datetime.now(), counted in whole hours.          *)
(* Rows keep the columns the handlers read or compare; the users' created_at*)
(* and profile_data and the activity rows' details blob are left out.      *)
(* A store call either completes or raises without writing.  SpecFaults,   *)
(* SpecSession and SpecBranding let store calls raise (the *_raises        *)
(* actions); in the other specifications every store call completes.       *)
(***************************************************************************)
EXTENDS Integers, Sequences, FiniteSets, TLC

VARIABLES
    users,            \* table "users": sequence of rows, id = position
    password_resets,  \* table "password_resets": sequence of rows, id = position
    user_activity,    \* table "user_activity": bag of rows (row |-> number of copies)
    now,              \* datetime.now(), in hours
    pc,               \* per caller: the store call it is about to make
    loc,              \* per caller: arguments and locals of the call in progress
    ret,              \* per caller: what its last finished call returned
    hist,             \* history: facts about finished calls the claims speak of
                      \* (the rows create_user inserted and the arguments it had,
                      \* the resets that succeeded, the password each set, the
                      \* row the last successful authenticate_user returned,
                      \* the users an admin has suspended at some time, the
                      \* tokens a user held when another reset that user's
                      \* password, the user who added each item of a
                      \* session's quote)
    session,          \* per caller: st.session_state of its browser session
    feedback,         \* table "feedback": sequence of rows, id = position
    custom_branding,  \* table "custom_branding": sequence of rows, id = position
    quote_items,      \* per caller: st.session_state.quote_items (a session
                      \* without the key has the empty list)
    navigation        \* per caller: the key st.session_state.page

vars == <<users, password_resets, user_activity, now, pc, loc, ret, hist,
          session, feedback, custom_branding, quote_items, navigation>>

(***************************** bounds ***************************************)
NumProcs == 2        \* callers (browser sessions / script runs) that may interleave
NumTestUsers == 3    \* how many entries of the setup script's list are used
MaxUsers == 4        \* rows of "users"
MaxResets == 2       \* rows of "password_resets"
MaxTime == 24        \* the clock stops here
MaxRows == 2         \* rows of "user_activity" of mixed kinds
MaxBurst == 26       \* rows of "user_activity" when one user repeats one action
MaxQuoteItems == 2   \* items a session's quote may hold
MaxBrandings == 2    \* rows of custom_branding at the start of a save
MaxWrites == 2       \* password writes per token, where failed resets can repeat

Procs == 1 .. NumProcs

(***************************** program constants ****************************)
HoursPerDay == 24
ResetTokenHours == 1
UNLIMITED == 0 - 1

\* Python's None, for a timestamp column and for the user a failed login returns
NoneTime == 0 - 1
NoneUser == [id |-> 0]

\* app.py:272-282: st.session_state.page is not set until a Quick Action
\* sets it
NewNavigation == [page |-> "unset"]
\* app.py:63-64: a browser session as main() first sets it up
NewSession == [authenticated |-> FALSE, user |-> NoneUser]

Tiers == {"basic", "premium", "enterprise"}

\* src/setup_test_users.py:23-73 (password and the fields the script stores)
test_users == <<
    [username |-> "admin", email |-> "admin@procurement.ai", password |-> "hello",
     is_admin |-> TRUE, subscription_tier |-> "enterprise"],
    [username |-> "testuser1", email |-> "testuser1@example.com", password |-> "hello",
     is_admin |-> FALSE, subscription_tier |-> "basic"],
    [username |-> "testuser2", email |-> "testuser2@example.com", password |-> "hello",
     is_admin |-> FALSE, subscription_tier |-> "premium"],
    [username |-> "testuser3", email |-> "testuser3@example.com", password |-> "hello",
     is_admin |-> FALSE, subscription_tier |-> "enterprise"],
    [username |-> "banking_demo", email |-> "banking@demo.com", password |-> "demo123",
     is_admin |-> FALSE, subscription_tier |-> "premium"],
    [username |-> "f1_demo", email |-> "f1@demo.com", password |-> "demo123",
     is_admin |-> FALSE, subscription_tier |-> "enterprise"],
    [username |-> "shipping_demo", email |-> "shipping@demo.com", password |-> "demo123",
     is_admin |-> FALSE, subscription_tier |-> "premium"] >>

\* the entries of the list the model runs the script on
TestUserList == SubSeq(test_users, 1, NumTestUsers)

(***************************** inputs ***************************************)
Passwords == {"hello", "demo123"}
RegUsernames == {"admin", "alice"}
RegEmails == {"admin@procurement.ai", "alice@example.com"}
LoginUsernames == {"admin", "alice", "testuser1"}
ResetEmails == {"admin@procurement.ai", "testuser1@example.com", "nobody@example.com"}
\* the action types the pages check and log: product_sourcing.py:23,62,
\* ai_suggestions.py:22,90 and ai_suggestions.py:289,295
PageActions == {"search", "ai_suggestion", "image_generation"}
\* check_subscription_limits and log_user_activity take any action type:
\* those of the pages, and one the limits table has a key for
LimitActions == PageActions \cup {"image_generations"}
\* the users whose limits are checked: the admin (enterprise), testuser1
\* (basic) and testuser2 (premium)
LimitUsers == {1, 2, 3}
\* the users whose sessions use the quota pages: a basic and a premium one
QuotaUsernames == {"testuser1", "testuser2"}
\* the users of the two sessions that act on each other: the admin and the
\* user the admin selects
PrivilegeUsernames == {"admin", "testuser1"}
\* the buttons of the admin's 'User Actions' that change what a user may do
UserActions == {"Suspend User", "Activate User", "Toggle Admin"}
\* the users whose branding is saved, and the brand names they enter
BrandUsers == {2, 3}
BrandNames == {"Acme", "Zenith"}
\* names of the products and suggestions added to a quote
QuoteNames == {"Custom T-Shirt", "Branded Mug"}
\* what the image service does when generate_image calls it
ImageService == {"no api key", "image", "no output", "fails"}
\* ai_suggestions.py:29-62: industries (two with templates, two without),
\* use cases, the budget slider and the quantity of the form
Industries == {"Banking & Finance", "Formula 1 & Motorsports", "Healthcare", "Retail"}
UseCases == {"Corporate Gifts", "Office Supplies", "Custom Solutions", "Event Supplies"}
BudgetRanges == {<<10, 100>>, <<1, 1000>>, <<45, 85>>}
Quantities == {1, 100, 500}
\* the pages a run of the main application is asked for
NavPages == {"Dashboard", "My Analytics", "Admin Panel"}
\* the row of the users list an admin picks for an action: testuser1's
SelectedUsers == {2}
\* the tokens a caller may present: those the store can hold, issued or not
Tokens == {<<"token", i>> : i \in 1 .. MaxResets}

(***************************** pure helpers *********************************)
\* hashlib.sha256(password.encode()).hexdigest(): a digest, never the password
\* itself; distinct passwords of the model have distinct digests.
hash_password(password) == <<"sha256", password>>

\* a verify_password that compares the computed hash with itself
verify_password_self(password, hashed) == hash_password(password) = hash_password(password)

verify_password(password, hashed) == hash_password(password) = hashed

(***************************** the store ************************************)
\* .select("*").eq(field, value): the rows, in table order
SelectEq(table, field, value) ==
    SelectSeq(table, LAMBDA r : r[field] = value)

\* .insert(row): the store assigns the id
InsertRow(table, row) ==
    Append(table, [id |-> Len(table) + 1] @@ row)

\* an update that leaves out the filter on the id
UpdateEveryRow(table, id, field, value) ==
    [i \in DOMAIN table |-> [table[i] EXCEPT ![field] = value]]

\* .update({field: value}).eq("id", id)
UpdateById(table, id, field, value) ==
    [i \in DOMAIN table |->
        IF table[i].id = id THEN [table[i] EXCEPT ![field] = value] ELSE table[i]]

Idle == [op |-> "idle"]
NoRet == [op |-> "none"]

Return(p, r) ==
    /\ ret' = [ret EXCEPT ![p] = r]
    /\ pc' = [pc EXCEPT ![p] = "idle"]
    /\ loc' = [loc EXCEPT ![p] = Idle]

\* the call goes on to its next store call; it has returned nothing yet
Goto(p, label, l) ==
    /\ pc' = [pc EXCEPT ![p] = label]
    /\ loc' = [loc EXCEPT ![p] = l]
    /\ ret' = [ret EXCEPT ![p] = NoRet]

(***************************** create_user **********************************)
\* auth.py:79-81: select by username; a row found ends the call
create_user_check_username(p, username, email, password, subscription_tier) ==
    /\ pc[p] = "idle"
    /\ IF SelectEq(users, "username", username) # <<>>
       THEN Return(p, [op |-> "create_user", ok |-> FALSE,
                       msg |-> "Username already exists",
                       username |-> username, email |-> email,
                       before |-> users])
       ELSE Goto(p, "create_user_check_email",
                 [op |-> "create_user", username |-> username, email |-> email,
                  password |-> password, subscription_tier |-> subscription_tier,
                  before |-> users])
    /\ UNCHANGED <<users, password_resets, user_activity, now, hist, session, feedback, custom_branding, quote_items, navigation>>

\* a create_user that does not look for the email
create_user_check_email_skipped(p) ==
    /\ pc[p] = "create_user_check_email"
    /\ Goto(p, "create_user_insert", loc[p])
    /\ UNCHANGED <<users, password_resets, user_activity, now, hist, session, feedback, custom_branding, quote_items, navigation>>

\* auth.py:83-85: select by email
create_user_check_email(p) ==
    /\ pc[p] = "create_user_check_email"
    /\ IF SelectEq(users, "email", loc[p].email) # <<>>
       THEN Return(p, [op |-> "create_user", ok |-> FALSE,
                       msg |-> "Email already registered",
                       username |-> loc[p].username, email |-> loc[p].email,
                       before |-> loc[p].before])
       ELSE Goto(p, "create_user_insert", loc[p])
    /\ UNCHANGED <<users, password_resets, user_activity, now, hist, session, feedback, custom_branding, quote_items, navigation>>

\* auth.py:88-100: insert the row
create_user_insert(p) ==
    /\ pc[p] = "create_user_insert"
    /\ Len(users) < MaxUsers
    /\ users' = InsertRow(users,
            [username |-> loc[p].username,
             email |-> loc[p].email,
             password_hash |-> hash_password(loc[p].password),
             subscription_tier |-> loc[p].subscription_tier,
             subscription_status |-> "active",
             last_login |-> NoneTime,
             is_admin |-> FALSE])
    /\ Return(p, [op |-> "create_user", ok |-> TRUE,
                  msg |-> "Account created successfully",
                  username |-> loc[p].username, email |-> loc[p].email,
                  before |-> loc[p].before])
    /\ hist' = [hist EXCEPT !.registered = @ \cup {Len(users) + 1},
                            !.created = @ \cup {[username |-> loc[p].username,
                                                 email |-> loc[p].email,
                                                 password |-> loc[p].password,
                                                 subscription_tier |->
                                                     loc[p].subscription_tier]}]
    /\ UNCHANGED <<password_resets, user_activity, now, session, feedback, custom_branding, quote_items, navigation>>

(***************************** create_test_users ****************************)
\* setup_test_users.py:77-105: one pass of the loop body for entry user_data
create_test_user(table, user_data) ==
    IF SelectEq(table, "username", user_data.username) # <<>>
    THEN table
    ELSE InsertRow(table,
            [username |-> user_data.username,
             email |-> user_data.email,
             password_hash |-> hash_password(user_data.password),
             is_admin |-> user_data.is_admin,
             subscription_tier |-> user_data.subscription_tier,
             subscription_status |-> "active",
             last_login |-> NoneTime])

RECURSIVE create_test_users_from(_, _)
create_test_users_from(table, list) ==
    IF list = <<>> THEN table
    ELSE create_test_users_from(create_test_user(table, Head(list)), Tail(list))

\* the script run as a whole
create_test_users(p) ==
    /\ pc[p] = "idle"
    /\ Len(create_test_users_from(users, TestUserList)) <= MaxUsers
    /\ users' = create_test_users_from(users, TestUserList)
    /\ Return(p, [op |-> "create_test_users"])
    /\ UNCHANGED <<password_resets, user_activity, now, hist, session, feedback, custom_branding, quote_items, navigation>>

\* the users table the setup script leaves on an empty store
SeededUsers == create_test_users_from(<<>>, TestUserList)

(***************************** authenticate_user ****************************)
\* a status test that turns every account away
account_rejected_always(user_data) == TRUE

\* a status test that lets every account through
account_rejected_never(user_data) == FALSE

\* auth.py:118: the account is turned away unless its status is 'active'
account_rejected(user_data) == user_data["subscription_status"] # "active"

\* auth.py:108-119: select by username, compare the hash, look at the status
authenticate_user_select(p, username, password) ==
    /\ pc[p] = "idle"
    /\ LET user == SelectEq(users, "username", username)
           user_data == user[1]
           failed(msg) == [op |-> "authenticate_user", ok |-> FALSE, user |-> NoneUser,
                           msg |-> msg, username |-> username,
                           password |-> password, before |-> users]
       IN  IF user = <<>>
           THEN Return(p, failed("Invalid username or password"))
           ELSE IF ~ verify_password(password, user_data.password_hash)
           THEN Return(p, failed("Invalid username or password"))
           ELSE IF account_rejected(user_data)
           THEN Return(p, failed("Account suspended or inactive"))
           ELSE Goto(p, "authenticate_user_update",
                     [op |-> "authenticate_user", username |-> username,
                      password |-> password, user_data |-> user_data,
                      before |-> users])
    /\ UNCHANGED <<users, password_resets, user_activity, now, hist, session, feedback, custom_branding, quote_items, navigation>>

\* auth.py:121-126: write last_login, return the row read before the write
authenticate_user_update(p) ==
    /\ pc[p] = "authenticate_user_update"
    /\ users' = UpdateById(users, loc[p].user_data.id, "last_login", now)
    /\ Return(p, [op |-> "authenticate_user", ok |-> TRUE,
                  user |-> loc[p].user_data, msg |-> "Login successful",
                  username |-> loc[p].username, password |-> loc[p].password,
                  before |-> loc[p].before])
    /\ UNCHANGED <<password_resets, user_activity, now, hist, session, feedback, custom_branding, quote_items, navigation>>

(***************************** password reset *******************************)
\* the token of a request that made none
NoToken == <<"token", 0>>

\* auth.py:24-26: secrets.token_urlsafe(32), a token no earlier call produced
generate_reset_token(table) == <<"token", Len(table) + 1>>

\* auth.py:140: datetime.now() + timedelta(hours=1)
reset_expiry(t) == t + ResetTokenHours

\* auth.py:134-137: select the user by email
initiate_password_reset_select(p, email) ==
    /\ pc[p] = "idle"
    /\ LET user == SelectEq(users, "email", email)
       IN  IF user = <<>>
           THEN Return(p, [op |-> "initiate_password_reset", ok |-> FALSE,
                           msg |-> "Email not found", reset_token |-> NoToken])
           ELSE Goto(p, "initiate_password_reset_insert",
                     [op |-> "initiate_password_reset", email |-> email,
                      user_id |-> user[1].id])
    /\ UNCHANGED <<users, password_resets, user_activity, now, hist, session, feedback, custom_branding, quote_items, navigation>>

\* auth.py:139-149: make the token and store it
initiate_password_reset_insert(p) ==
    /\ pc[p] = "initiate_password_reset_insert"
    /\ Len(password_resets) < MaxResets
    /\ LET reset_token == generate_reset_token(password_resets)
       IN  /\ password_resets' = InsertRow(password_resets,
                  [user_id |-> loc[p].user_id,
                   reset_token |-> reset_token,
                   expires_at |-> reset_expiry(now),
                   used |-> FALSE,
                   created_at |-> now])
           /\ Goto(p, "initiate_password_reset_send",
                   [loc[p] EXCEPT !.op = "initiate_password_reset"] @@
                   [reset_token |-> reset_token])
    /\ UNCHANGED <<users, user_activity, now, hist, session, feedback, custom_branding, quote_items, navigation>>

\* auth.py:151-155 with send_reset_email (28-73), which returns False when the
\* mail settings are missing or sending raises
initiate_password_reset_send(p, sent) ==
    /\ pc[p] = "initiate_password_reset_send"
    /\ IF sent
       THEN Return(p, [op |-> "initiate_password_reset", ok |-> TRUE,
                       msg |-> "Reset email sent successfully",
                       reset_token |-> loc[p].reset_token])
       ELSE Return(p, [op |-> "initiate_password_reset", ok |-> FALSE,
                       msg |-> "Failed to send reset email",
                       reset_token |-> loc[p].reset_token])
    /\ UNCHANGED <<users, password_resets, user_activity, now, hist, session, feedback, custom_branding, quote_items, navigation>>

\* an expiry test that never finds a token expired
token_expired_never(reset_record, t) == FALSE

\* auth.py:172: datetime.fromisoformat(expires_at) < datetime.now()
token_expired(reset_record, t) == reset_record["expires_at"] < t

\* a select that does not filter on the used flag
select_reset_any(table, reset_token) == SelectEq(table, "reset_token", reset_token)

\* auth.py:164: .eq("reset_token", reset_token).eq("used", False)
select_reset(table, reset_token) ==
    SelectEq(SelectEq(table, "reset_token", reset_token), "used", FALSE)

\* auth.py:164-173: look the token up, check its expiry
reset_password_select(p, reset_token, new_password) ==
    /\ pc[p] = "idle"
    /\ LET reset_data == select_reset(password_resets, reset_token)
           reset_record == reset_data[1]
           failed(msg) == [op |-> "reset_password", ok |-> FALSE, msg |-> msg,
                           reset_token |-> reset_token, at |-> now,
                           after_success |-> reset_token \in hist.reset_done,
                           users_before |-> users,
                           resets_before |-> password_resets]
       IN  IF reset_data = <<>>
           THEN Return(p, failed("Invalid or expired reset token"))
           ELSE IF token_expired(reset_record, now)
           THEN Return(p, failed("Reset token has expired"))
           ELSE Goto(p, "reset_password_update_user",
                     [op |-> "reset_password", reset_token |-> reset_token,
                      new_password |-> new_password,
                      reset_record |-> reset_record, at |-> now,
                      after_success |-> reset_token \in hist.reset_done,
                      users_before |-> users,
                      resets_before |-> password_resets])
    /\ UNCHANGED <<users, password_resets, user_activity, now, hist, session, feedback, custom_branding, quote_items, navigation>>

\* a reset that writes the new hash to the first row of the table
reset_password_update_first_row(p) ==
    /\ pc[p] = "reset_password_update_user"
    /\ users' = UpdateById(users, 1, "password_hash",
                           hash_password(loc[p].new_password))
    /\ hist' = [hist EXCEPT !.reset_writes =
                    [@ EXCEPT ![loc[p].reset_token] = @ + 1]]
    /\ Goto(p, "reset_password_mark_used", loc[p])
    /\ UNCHANGED <<password_resets, user_activity, now, session, feedback, custom_branding, quote_items, navigation>>

\* auth.py:175-178: write the new hash
reset_password_update_user(p) ==
    /\ pc[p] = "reset_password_update_user"
    /\ users' = UpdateById(users, loc[p].reset_record.user_id, "password_hash",
                           hash_password(loc[p].new_password))
    /\ hist' = [hist EXCEPT !.reset_writes =
                    [@ EXCEPT ![loc[p].reset_token] = @ + 1]]
    /\ Goto(p, "reset_password_mark_used", loc[p])
    /\ UNCHANGED <<password_resets, user_activity, now, session, feedback, custom_branding, quote_items, navigation>>

\* auth.py:180-185: mark the token used, return success
reset_password_mark_used(p) ==
    /\ pc[p] = "reset_password_mark_used"
    /\ password_resets' = UpdateById(password_resets, loc[p].reset_record.id,
                                     "used", TRUE)
    /\ hist' = [hist EXCEPT !.reset_done = @ \cup {loc[p].reset_token},
                            !.reset_ok = [@ EXCEPT ![loc[p].reset_token] = @ + 1],
                            !.reset_to = [@ EXCEPT ![loc[p].reset_record.user_id] =
                                              loc[p].new_password],
                            !.superseded = @ \cup
                                {password_resets[i].reset_token :
                                    i \in {j \in DOMAIN password_resets :
                                        /\ password_resets[j].user_id =
                                               loc[p].reset_record.user_id
                                        /\ password_resets[j].reset_token #
                                               loc[p].reset_token}}]
    /\ Return(p, [op |-> "reset_password", ok |-> TRUE,
                  msg |-> "Password reset successfully",
                  reset_token |-> loc[p].reset_token, at |-> loc[p].at,
                  after_success |-> loc[p].after_success,
                  users_before |-> loc[p].users_before,
                  resets_before |-> loc[p].resets_before])
    /\ UNCHANGED <<users, user_activity, now, session, feedback, custom_branding, quote_items, navigation>>

(***************************** subscription limits **************************)
\* auth.py:210-229
limits ==
    [basic |-> [searches_per_day |-> 10,
                ai_suggestions_per_day |-> 5,
                image_generations_per_day |-> 3,
                quotes_per_day |-> 5],
     premium |-> [searches_per_day |-> 100,
                  ai_suggestions_per_day |-> 50,
                  image_generations_per_day |-> 25,
                  quotes_per_day |-> 50],
     enterprise |-> [searches_per_day |-> UNLIMITED,
                     ai_suggestions_per_day |-> UNLIMITED,
                     image_generations_per_day |-> UNLIMITED,
                     quotes_per_day |-> UNLIMITED]]

\* a lookup under the table's own plural key names
daily_limit_of_plural(tier_limits, action_type) ==
    LET key == action_type \o "s_per_day"
    IN  IF key \in DOMAIN tier_limits THEN tier_limits[key] ELSE 0

\* a lookup that takes a missing key as unlimited
daily_limit_of_default_unlimited(tier_limits, action_type) ==
    LET key == action_type \o "_per_day"
    IN  IF key \in DOMAIN tier_limits THEN tier_limits[key] ELSE UNLIMITED

\* auth.py:235: tier_limits.get(f"{action_type}_per_day", 0)
daily_limit_of(tier_limits, action_type) ==
    LET key == action_type \o "_per_day"
    IN  IF key \in DOMAIN tier_limits THEN tier_limits[key] ELSE 0

\* auth.py:241: datetime.now().date(), as the hour the day began
today(t) == (t \div HoursPerDay) * HoursPerDay

\* the number of rows of a bag that are of the kinds in S
RECURSIVE RowCount(_, _)
RowCount(table, S) ==
    IF S = {} THEN 0
    ELSE LET r == CHOOSE x \in S : TRUE
         IN  table[r] + RowCount(table, S \ {r})

\* the number of rows of an activity table
ActivityRows(table) == RowCount(table, DOMAIN table)

\* the number of 'login' rows of an activity table
LoginRows(table) ==
    RowCount(table, {r \in DOMAIN table : r.action_type = "login"})

\* auth.py:242-244: .eq("user_id", ..).eq("action_type", ..).gte("created_at",
\* today), and len(usage.data), the number of rows selected
usage_count(table, user_id, action_type, since) ==
    RowCount(table, {r \in DOMAIN table : /\ r.user_id = user_id
                                          /\ r.action_type = action_type
                                          /\ r.created_at >= since})

\* auth.py:203-238 with get_user_subscription_info (190-199): read the user,
\* find the tier's limit for the action
check_subscription_limits_user(p, user_id, action_type) ==
    /\ pc[p] = "idle"
    /\ LET user == SelectEq(users, "id", user_id)
           user_info == user[1]
           tier == user_info.subscription_tier
           result(v) == [op |-> "check_subscription_limits", value |-> v,
                         user_id |-> user_id, action_type |-> action_type,
                         at |-> now]
       IN  IF user = <<>>
           THEN Return(p, result(FALSE))
           ELSE IF tier \notin DOMAIN limits
           THEN Return(p, result(FALSE))
           ELSE IF daily_limit_of(limits[tier], action_type) = UNLIMITED
           THEN Return(p, result(TRUE))
           ELSE Goto(p, "check_subscription_limits_usage",
                     [op |-> "check_subscription_limits", user_id |-> user_id,
                      action_type |-> action_type,
                      daily_limit |-> daily_limit_of(limits[tier], action_type)])
    /\ UNCHANGED <<users, password_resets, user_activity, now, hist, session, feedback, custom_branding, quote_items, navigation>>

\* auth.py:240-244: count today's rows of the action, compare with the limit
check_subscription_limits_usage(p) ==
    /\ pc[p] = "check_subscription_limits_usage"
    /\ LET usage == usage_count(user_activity, loc[p].user_id,
                                loc[p].action_type, today(now))
       IN  Return(p, [op |-> "check_subscription_limits",
                      value |-> (usage < loc[p].daily_limit),
                      user_id |-> loc[p].user_id,
                      action_type |-> loc[p].action_type, at |-> now])
    /\ UNCHANGED <<users, password_resets, user_activity, now, hist, session, feedback, custom_branding, quote_items, navigation>>

\* the bound on the activity table: MaxRows rows of any kinds, or up to
\* MaxBurst rows when every row is of the one user and action
ActivityFits(user_id, action_type) ==
    LET same == {r \in DOMAIN user_activity :
                    r.user_id = user_id /\ r.action_type = action_type}
    IN  \/ RowCount(user_activity, DOMAIN user_activity) < MaxRows
        \/ /\ DOMAIN user_activity = same
           /\ RowCount(user_activity, same) < MaxBurst

\* a logging call that replaces the table's rows by the new row
log_user_activity_overwriting(p, user_id, action_type) ==
    /\ pc[p] = "idle"
    /\ ActivityFits(user_id, action_type)
    /\ user_activity' = ([user_id |-> user_id, action_type |-> action_type,
                          created_at |-> now] :> 1)
    /\ Return(p, [op |-> "log_user_activity"])
    /\ UNCHANGED <<users, password_resets, now, hist, session, feedback, custom_branding, quote_items, navigation>>

\* auth.py:246-258: one more row of the user's action, stamped now
log_user_activity(p, user_id, action_type) ==
    /\ pc[p] = "idle"
    /\ ActivityFits(user_id, action_type)
    /\ LET row == [user_id |-> user_id, action_type |-> action_type,
                   created_at |-> now]
       IN  user_activity' =
               IF row \in DOMAIN user_activity
               THEN [user_activity EXCEPT ![row] = @ + 1]
               ELSE user_activity @@ (row :> 1)
    /\ Return(p, [op |-> "log_user_activity"])
    /\ UNCHANGED <<users, password_resets, now, hist, session, feedback, custom_branding, quote_items, navigation>>

(***************************** admin updates ********************************)
\* admin_dashboard.py:442-444, called with 'suspended' (157) or 'active' (163)
\* for a row of the users list
\* a status update that activates the row whatever status it is given
update_user_status_activating(p, user_id, status) ==
    /\ pc[p] = "idle"
    /\ users' = UpdateById(users, user_id, "subscription_status", "active")
    /\ hist' = [hist EXCEPT !.suspended =
                    IF status = "suspended" THEN @ \cup {user_id} ELSE @]
    /\ Return(p, [op |-> "update_user_status", user_id |-> user_id,
                  status |-> status])
    /\ UNCHANGED <<password_resets, user_activity, now, session, feedback, custom_branding, quote_items, navigation>>

update_user_status(p, user_id, status) ==
    /\ pc[p] = "idle"
    /\ users' = UpdateById(users, user_id, "subscription_status", status)
    /\ hist' = [hist EXCEPT !.suspended =
                    IF status = "suspended" THEN @ \cup {user_id} ELSE @]
    /\ Return(p, [op |-> "update_user_status", user_id |-> user_id,
                  status |-> status])
    /\ UNCHANGED <<password_resets, user_activity, now, session, feedback, custom_branding, quote_items, navigation>>

\* admin_dashboard.py:446-448, called with the tier chosen at 168-170
update_user_subscription(p, user_id, tier) ==
    /\ pc[p] = "idle"
    /\ users' = UpdateById(users, user_id, "subscription_tier", tier)
    /\ Return(p, [op |-> "update_user_subscription", user_id |-> user_id,
                  tier |-> tier])
    /\ UNCHANGED <<password_resets, user_activity, now, hist, session, feedback, custom_branding, quote_items, navigation>>

\* admin_dashboard.py:450-452, called with the negation of the flag of the row
\* the users list showed (176)
toggle_admin_status(p, user_id, is_admin) ==
    /\ pc[p] = "idle"
    /\ users' = UpdateById(users, user_id, "is_admin", is_admin)
    /\ Return(p, [op |-> "toggle_admin_status", user_id |-> user_id,
                  is_admin |-> is_admin])
    /\ UNCHANGED <<password_resets, user_activity, now, hist, session, feedback, custom_branding, quote_items, navigation>>

\* admin_dashboard.py:454-456, called with 'flagged' (331) or 'resolved' (336)
update_feedback_status(p, feedback_id, status) ==
    /\ pc[p] = "idle"
    /\ feedback' = UpdateById(feedback, feedback_id, "status", status)
    /\ Return(p, [op |-> "update_feedback_status", feedback_id |-> feedback_id,
                  status |-> status])
    /\ UNCHANGED <<users, password_resets, user_activity, now, hist, session, custom_branding, quote_items, navigation>>

(***************************** the pages (app.py) ***************************)
\* one more row in an activity table
AddRow(table, row) ==
    IF row \in DOMAIN table
    THEN [table EXCEPT ![row] = @ + 1]
    ELSE table @@ (row :> 1)

\* app.py:84-86 with auth.py:108-119: the Login button of a session that is
\* not logged in; authenticate_user selects the user, compares the hash and
\* looks at the status
show_login_page_login(p, username, password) ==
    /\ pc[p] = "idle"
    /\ ~ session[p].authenticated
    /\ LoginRows(user_activity) < MaxRows
    /\ LET user == SelectEq(users, "username", username)
           user_data == user[1]
           failed(msg) == [op |-> "login", ok |-> FALSE, user |-> NoneUser,
                           msg |-> msg, users_before |-> users,
                           activity_before |-> user_activity]
       IN  IF user = <<>>
           THEN Return(p, failed("Invalid username or password"))
           ELSE IF ~ verify_password(password, user_data.password_hash)
           THEN Return(p, failed("Invalid username or password"))
           ELSE IF account_rejected(user_data)
           THEN Return(p, failed("Account suspended or inactive"))
           ELSE Goto(p, "show_login_page_last_login",
                     [op |-> "login", user_data |-> user_data,
                      users_before |-> users,
                      activity_before |-> user_activity])
    /\ UNCHANGED <<users, password_resets, user_activity, now, hist, session, feedback, custom_branding, quote_items, navigation>>

\* auth.py:108,128-129 and app.py:93-94: the select raises, the message is shown
show_login_page_login_raises(p) ==
    /\ pc[p] = "idle"
    /\ ~ session[p].authenticated
    /\ Return(p, [op |-> "login", ok |-> FALSE, user |-> NoneUser,
                  msg |-> "Login error", users_before |-> users,
                  activity_before |-> user_activity])
    /\ UNCHANGED <<users, password_resets, user_activity, now, hist, session, feedback, custom_branding, quote_items, navigation>>

\* auth.py:121-126 and app.py:87-89: authenticate_user writes last_login and
\* returns the row it read; the page puts it in the session
show_login_page_last_login(p) ==
    /\ pc[p] = "show_login_page_last_login"
    /\ users' = UpdateById(users, loc[p].user_data.id, "last_login", now)
    /\ session' = [session EXCEPT ![p] = [authenticated |-> TRUE,
                                          user |-> loc[p].user_data]]
    /\ hist' = [hist EXCEPT !.granted = [@ EXCEPT ![p] = loc[p].user_data]]
    /\ Goto(p, "show_login_page_log_activity", loc[p] @@ [login_at |-> now])
    /\ UNCHANGED <<password_resets, user_activity, now, feedback, custom_branding, quote_items, navigation>>

\* auth.py:122-124,128-129 and app.py:93-94: the update raises
show_login_page_last_login_raises(p) ==
    /\ pc[p] = "show_login_page_last_login"
    /\ Return(p, [op |-> "login", ok |-> FALSE, user |-> NoneUser,
                  msg |-> "Login error", users_before |-> loc[p].users_before,
                  activity_before |-> loc[p].activity_before])
    /\ UNCHANGED <<users, password_resets, user_activity, now, hist, session, feedback, custom_branding, quote_items, navigation>>

\* app.py:90-92 with auth.py:246-258: the 'login' row, then the rerun
show_login_page_log_activity(p) ==
    /\ pc[p] = "show_login_page_log_activity"
    /\ user_activity' = AddRow(user_activity,
            [user_id |-> loc[p].user_data.id, action_type |-> "login",
             created_at |-> now])
    /\ Return(p, [op |-> "login", ok |-> TRUE, user |-> loc[p].user_data,
                  msg |-> "Login successful", login_at |-> loc[p].login_at,
                  logged_at |-> now, logged |-> TRUE,
                  users_before |-> loc[p].users_before,
                  activity_before |-> loc[p].activity_before])
    /\ UNCHANGED <<users, password_resets, now, hist, session, feedback, custom_branding, quote_items, navigation>>

\* auth.py:256-258: the insert of the 'login' row raises; log_user_activity
\* shows the error and the login goes on
show_login_page_log_activity_raises(p) ==
    /\ pc[p] = "show_login_page_log_activity"
    /\ Return(p, [op |-> "login", ok |-> TRUE, user |-> loc[p].user_data,
                  msg |-> "Login successful", login_at |-> loc[p].login_at,
                  logged_at |-> now, logged |-> FALSE,
                  users_before |-> loc[p].users_before,
                  activity_before |-> loc[p].activity_before])
    /\ UNCHANGED <<users, password_resets, user_activity, now, hist, session, feedback, custom_branding, quote_items, navigation>>

\* a Logout that leaves the user record in the session
show_main_app_logout_keeping_user(p) ==
    /\ pc[p] = "idle"
    /\ session[p].authenticated
    /\ session' = [session EXCEPT ![p].authenticated = FALSE]
    /\ Return(p, [op |-> "logout"])
    /\ UNCHANGED <<users, password_resets, user_activity, now, hist, feedback, custom_branding, quote_items, navigation>>

\* app.py:177-180: the Logout button of the main application
show_main_app_logout(p) ==
    /\ pc[p] = "idle"
    /\ session[p].authenticated
    /\ session' = [session EXCEPT ![p] = [authenticated |-> FALSE,
                                          user |-> NoneUser]]
    /\ Return(p, [op |-> "logout"])
    /\ UNCHANGED <<users, password_resets, user_activity, now, hist, feedback, custom_branding, quote_items, navigation>>

\* a navigation that offers every page to every user
pages_for_everyone(user) ==
    {"Dashboard", "Product Sourcing", "AI Suggestions", "Custom Branding",
     "Social Trends", "Order Management", "Analytics", "Admin Panel"}

\* app.py:183-186: the pages the navigation offers to the session's user
pages(user) ==
    IF user.is_admin
    THEN {"Dashboard", "Product Sourcing", "AI Suggestions", "Custom Branding",
          "Social Trends", "Order Management", "Analytics", "Admin Panel"}
    ELSE {"Dashboard", "Product Sourcing", "AI Suggestions", "Custom Branding",
          "Order Management", "My Analytics"}

\* app.py:288-307
display_limits ==
    [basic |-> [searches |-> 10, ai_suggestions |-> 5,
                image_generations |-> 3, quotes |-> 5],
     premium |-> [searches |-> 100, ai_suggestions |-> 50,
                  image_generations |-> 25, quotes |-> 50],
     enterprise |-> [searches |-> UNLIMITED, ai_suggestions |-> UNLIMITED,
                     image_generations |-> UNLIMITED, quotes |-> UNLIMITED]]

\* app.py:286,308: limits.get(tier, limits["basic"])
get_subscription_limits(tier) ==
    IF tier \in DOMAIN display_limits THEN display_limits[tier]
    ELSE display_limits["basic"]

\* app.py:310-315: the number of the user's rows of the action type created
\* since the day began
get_daily_usage(table, user_id, action_type, t) ==
    usage_count(table, user_id, action_type, today(t))

\* app.py:194-200: the lines of the sidebar, from the session's user record:
\* for each action of the tier's table its limit and, unless the limit is -1,
\* the usage counted for that action name
sidebar(user) ==
    LET shown == get_subscription_limits(user.subscription_tier)
    IN  [action \in DOMAIN shown |->
            IF shown[action] = UNLIMITED
            THEN [limit |-> UNLIMITED]
            ELSE [usage |-> get_daily_usage(user_activity, user.id, action, now),
                  limit |-> shown[action]]]

\* admin_dashboard.py:17-19: the dashboard turns a session away
admin_dashboard_denied(state) ==
    IF state.user = NoneUser THEN TRUE ELSE ~ state.user.is_admin

\* app.py:66-69,188,217-218 and admin_dashboard.py:17: the run reaches the
\* admin functions: the session is logged in, 'Admin Panel' is among the pages
\* offered and chosen, the route's own test passes and the dashboard's test
admin_dashboard_open(p) ==
    /\ session[p].authenticated
    /\ "Admin Panel" \in pages(session[p].user)
    /\ session[p].user.is_admin
    /\ ~ admin_dashboard_denied(session[p])

\* app.py:55-69,166-218: one run of main() with no button pressed: the login
\* page for a session not logged in, else the main application with the page
\* chosen in the navigation
main(p, page) ==
    /\ pc[p] = "idle"
    /\ IF ~ session[p].authenticated
       THEN Return(p, [op |-> "main", shown |-> "login_page"])
       ELSE /\ page \in pages(session[p].user)
            /\ Return(p, [op |-> "main", shown |-> "main_app",
                          offered |-> pages(session[p].user),
                          page |-> page,
                          sidebar |-> sidebar(session[p].user),
                          admin_dashboard |->
                              (page = "Admin Panel" /\ admin_dashboard_open(p))])
    /\ UNCHANGED <<users, password_resets, user_activity, now, hist, session, feedback, custom_branding, quote_items, navigation>>

\* admin_dashboard.py:17-19,155-178 with 442-452: a button of the 'User
\* Actions' of a session the dashboard is open for, pressed for a row of the
\* users list; the update function called makes its one store call
show_user_management(p, user_id, button) ==
    /\ pc[p] = "idle"
    /\ admin_dashboard_open(p)
    /\ LET selected_user == SelectEq(users, "id", user_id)[1]
       IN  users' =
              CASE button = "Suspend User" ->
                      UpdateById(users, user_id, "subscription_status", "suspended")
                [] button = "Activate User" ->
                      UpdateById(users, user_id, "subscription_status", "active")
                [] button = "Toggle Admin" ->
                      UpdateById(users, user_id, "is_admin", ~ selected_user.is_admin)
    /\ hist' = [hist EXCEPT !.suspended =
                    IF button = "Suspend User" THEN @ \cup {user_id} ELSE @]
    /\ Return(p, [op |-> "show_user_management", button |-> button,
                  user_id |-> user_id, actor |-> session[p].user.id,
                  users_before |-> users])
    /\ UNCHANGED <<password_resets, user_activity, now, session, feedback, custom_branding, quote_items, navigation>>

(***************************** quick actions ********************************)
\* app.py:270-282: the page each Quick Action button names
quick_action_page ==
    [start_product_search |-> "Product Sourcing",
     get_ai_suggestions |-> "AI Suggestions",
     manage_branding |-> "Custom Branding"]

\* app.py:188: page = st.sidebar.selectbox("Navigation", pages), the value of
\* the widget; the run does not read st.session_state.page
selectbox(selected, state) == selected

\* app.py:203-204,266-283: a run of the main application with 'Dashboard'
\* chosen in the navigation, in which a Quick Action button is pressed: the
\* handler sets st.session_state.page and asks for a rerun
show_dashboard_quick_action(p, button) ==
    /\ pc[p] = "idle"
    /\ session[p].authenticated
    /\ navigation' = [navigation EXCEPT ![p].page = quick_action_page[button]]
    /\ Goto(p, "show_main_app_rerun",
            [op |-> "quick_action", button |-> button, selected |-> "Dashboard"])
    /\ UNCHANGED <<users, password_resets, user_activity, now, hist, session, feedback, custom_branding, quote_items>>

\* app.py:166-218: the run that follows, the navigation widget as it was
show_main_app_rerun(p) ==
    /\ pc[p] = "show_main_app_rerun"
    /\ Return(p, [op |-> "quick_action", button |-> loc[p].button,
                  page |-> selectbox(loc[p].selected, navigation[p])])
    /\ UNCHANGED <<users, password_resets, user_activity, now, hist, session, feedback, custom_branding, quote_items, navigation>>

(***************************** mock suggestions *****************************)
\* Strings are sequences of pieces, so that an f-string is a concatenation.
\* ai_suggestions.py:245: range(5)
NumSuggestions == 5

\* str(n) for the numbers the loop formats
str(n) == <<"1", "2", "3", "4", "5">>[n]

\* ai_suggestions.py:186-229: the templates of the industries that have
\* some (name and price_range of each entry; the other keys are fixed texts)
product_templates ==
    ("Banking & Finance" :>
        <<[name |-> <<"Premium Leather Portfolio with Logo Embossing">>,
           price_range |-> <<45, 85>>],
          [name |-> <<"Smart Wireless Charging Desk Pad">>,
           price_range |-> <<35, 65>>]>>) @@
    ("Formula 1 & Motorsports" :>
        <<[name |-> <<"Carbon Fiber Business Card Holder">>,
           price_range |-> <<25, 45>>],
          [name |-> <<"Precision Titanium Multi-Tool">>,
           price_range |-> <<55, 95>>]>>)

\* ai_suggestions.py:231-243: product_templates.get(industry, [generic])
templates_for(industry, use_case, budget_range) ==
    IF industry \in DOMAIN product_templates
    THEN product_templates[industry]
    ELSE <<[name |-> <<"Custom ", use_case, " Solution">>,
            price_range |-> budget_range]>>

\* a copy that hands back the object itself
copy_alias(heap, ref) == [heap |-> heap, ref |-> ref]

\* dict.copy(): a new object with the same items; objects live in a heap
\* (a sequence), a reference is a position in it
copy(heap, ref) == [heap |-> Append(heap, heap[ref]), ref |-> Len(heap) + 1]

\* d[key] = value on the object a reference points to
setitem(heap, ref, key, value) ==
    [heap EXCEPT ![ref] = (key :> value) @@ @]

\* ai_suggestions.py:245-258: the loop body for index i (0-based) and the
\* iterations after it; templates are the objects 1 .. n of the heap
RECURSIVE suggestion_loop(_, _, _, _, _)
suggestion_loop(i, n, heap, suggestions, industry) ==
    IF i >= NumSuggestions THEN [heap |-> heap, suggestions |-> suggestions]
    ELSE LET made == IF i < n THEN copy(heap, i + 1)
                     ELSE copy(heap, (i % n) + 1)
             named == IF i < n THEN made.heap
                      ELSE setitem(made.heap, made.ref, "name",
                                   made.heap[made.ref]["name"] \o
                                       <<" - Variant ", str(i + 1)>>)
             prompted == setitem(named, made.ref, "image_prompt",
                                 named[made.ref]["name"] \o
                                     <<" for ", industry,
                                       " professional use, high quality product photography">>)
         IN  suggestion_loop(i + 1, n, prompted, Append(suggestions, made.ref),
                             industry)

\* ai_suggestions.py:182-262: the suggestions returned, and the template
\* list as the call leaves it
generate_mock_suggestions(p, industry, use_case, budget_range, quantity) ==
    /\ pc[p] = "idle"
    /\ LET templates == templates_for(industry, use_case, budget_range)
           done == suggestion_loop(0, Len(templates), templates, <<>>, industry)
       IN  Return(p, [op |-> "generate_mock_suggestions",
                      industry |-> industry, use_case |-> use_case,
                      budget_range |-> budget_range, quantity |-> quantity,
                      suggestions |-> [k \in DOMAIN done.suggestions |->
                                          done.heap[done.suggestions[k]]],
                      templates |-> [k \in DOMAIN templates |-> done.heap[k]]])
    /\ UNCHANGED <<users, password_resets, user_activity, now, hist, session, feedback, custom_branding, quote_items, navigation>>

(***************************** the quote ************************************)
\* product_sourcing.py:262-289: the session's list gets the item (the list is
\* made when the session has none), then the 'add_to_quote' row is logged, or
\* its insert raises and log_user_activity shows the error.  The item holds
\* no user; who added it is kept in hist.  The function is the handler of the
\* 'Add to Quote' buttons of the search results.
add_to_quote(p, product, logged) ==
    /\ pc[p] = "idle"
    /\ session[p].authenticated
    /\ Len(quote_items[p]) < MaxQuoteItems
    /\ quote_items' = [quote_items EXCEPT ![p] =
            Append(@, [product_id |-> product, name |-> product, added_at |-> now])]
    /\ hist' = [hist EXCEPT !.added_by = [@ EXCEPT ![p] =
                                             Append(@, session[p].user.id)]]
    /\ user_activity' =
          IF logged
          THEN AddRow(user_activity, [user_id |-> session[p].user.id,
                                      action_type |-> "add_to_quote",
                                      created_at |-> now])
          ELSE user_activity
    /\ Return(p, [op |-> "add_to_quote", name |-> product])
    /\ UNCHANGED <<users, password_resets, now, session, feedback, custom_branding, navigation>>

\* ai_suggestions.py:314-338: the same for a suggestion
add_suggestion_to_quote(p, suggestion, logged) ==
    /\ pc[p] = "idle"
    /\ session[p].authenticated
    /\ Len(quote_items[p]) < MaxQuoteItems
    /\ quote_items' = [quote_items EXCEPT ![p] =
            Append(@, [type |-> "ai_suggestion", name |-> suggestion,
                       added_at |-> now])]
    /\ hist' = [hist EXCEPT !.added_by = [@ EXCEPT ![p] =
                                             Append(@, session[p].user.id)]]
    /\ user_activity' =
          IF logged
          THEN AddRow(user_activity, [user_id |-> session[p].user.id,
                                      action_type |-> "add_suggestion_to_quote",
                                      created_at |-> now])
          ELSE user_activity
    /\ Return(p, [op |-> "add_suggestion_to_quote", name |-> suggestion])
    /\ UNCHANGED <<users, password_resets, now, session, feedback, custom_branding, navigation>>

(***************************** custom branding ******************************)
\* load_user_branding returns None
NoneBranding == [id |-> 0]

\* the rows of the user that are active
ActiveBranding(table, user_id) ==
    {i \in DOMAIN table : table[i].user_id = user_id /\ table[i].is_active}

\* custom_branding.py:310-315: select the user's active rows and return
\* result.data[0], or None when there is none; the select names no order, so
\* with several active rows any of them may come first
load_user_branding(p, user_id) ==
    /\ pc[p] = "idle"
    /\ LET result == ActiveBranding(custom_branding, user_id)
       IN  IF result = {}
           THEN Return(p, [op |-> "load_user_branding", user_id |-> user_id,
                           branding |-> NoneBranding, table |-> custom_branding])
           ELSE \E i \in result :
                   Return(p, [op |-> "load_user_branding", user_id |-> user_id,
                              branding |-> custom_branding[i],
                              table |-> custom_branding])
    /\ UNCHANGED <<users, password_resets, user_activity, now, hist, session, feedback, custom_branding, quote_items, navigation>>

\* custom_branding.py:327: every row of the user is made inactive
save_brand_configuration_deactivate(p, user_id, brand_name) ==
    /\ pc[p] = "idle"
    /\ Len(custom_branding) < MaxBrandings
    /\ custom_branding' =
          [i \in DOMAIN custom_branding |->
              IF custom_branding[i].user_id = user_id
              THEN [custom_branding[i] EXCEPT !.is_active = FALSE]
              ELSE custom_branding[i]]
    /\ Goto(p, "save_brand_configuration_insert",
            [op |-> "save_brand_configuration", user_id |-> user_id,
             brand_name |-> brand_name])
    /\ UNCHANGED <<users, password_resets, user_activity, now, hist, session, feedback, quote_items, navigation>>

\* custom_branding.py:330-344: the new row, active
save_brand_configuration_insert(p) ==
    /\ pc[p] = "save_brand_configuration_insert"
    /\ custom_branding' = InsertRow(custom_branding,
            [user_id |-> loc[p].user_id, brand_name |-> loc[p].brand_name,
             is_active |-> TRUE, created_at |-> now])
    /\ Goto(p, "save_brand_configuration_log", loc[p])
    /\ UNCHANGED <<users, password_resets, user_activity, now, hist, session, feedback, quote_items, navigation>>

\* custom_branding.py:346-352 with auth.py:246-258: the 'brand_setup' row is
\* logged, or its insert raises and log_user_activity shows the error; the
\* save has succeeded either way
save_brand_configuration_log(p, logged) ==
    /\ pc[p] = "save_brand_configuration_log"
    /\ user_activity' =
          IF logged
          THEN AddRow(user_activity, [user_id |-> loc[p].user_id,
                                      action_type |-> "brand_setup",
                                      created_at |-> now])
          ELSE user_activity
    /\ Return(p, [op |-> "save_brand_configuration", ok |-> TRUE,
                  user_id |-> loc[p].user_id, brand_name |-> loc[p].brand_name])
    /\ UNCHANGED <<users, password_resets, now, hist, session, feedback, custom_branding, quote_items, navigation>>

\* custom_branding.py:327,342,354-355: the update or the insert raises; the
\* error is shown and nothing is undone
save_brand_configuration_raises(p, user_id, brand_name) ==
    /\ \/ pc[p] = "idle"
       \/ /\ pc[p] = "save_brand_configuration_insert"
          /\ user_id = loc[p].user_id /\ brand_name = loc[p].brand_name
    /\ Return(p, [op |-> "save_brand_configuration", ok |-> FALSE,
                  user_id |-> user_id, brand_name |-> brand_name])
    /\ UNCHANGED <<users, password_resets, user_activity, now, hist, session, feedback, custom_branding, quote_items, navigation>>

(***************************** the quota pages ******************************)
\* One interaction with a page that spends a quota: the run of
\* enhanced_product_sourcing with 'Search Products' pressed
\* (product_sourcing.py:20-71, action 'search'), of industry_ai_suggestions
\* with 'Generate AI Suggestions' pressed (ai_suggestions.py:19-96,
\* 'ai_suggestion'), or of display_suggestions with 'Generate Image' pressed
\* (ai_suggestions.py:284-300, 'image_generation').  The run checks the limit
\* of the session's user and, let through, logs the activity.

\* image_gen.py:4-16: without the API key the function returns a sentence,
\* not an image; with it, what the model's first output is (a URL, or nothing),
\* unless the service call raises
generate_image(service) ==
    CASE service = "no api key" -> [raised |-> FALSE, value |-> "Replicate API key not set."]
      [] service = "image" -> [raised |-> FALSE, value |-> "https://replicate.delivery/out-0.png"]
      [] service = "no output" -> [raised |-> FALSE, value |-> ""]
      [] service = "fails" -> [raised |-> TRUE, value |-> ""]

\* product_sourcing.py:24, ai_suggestions.py:23,302: what the page shows when
\* the check is False
limit_message(action_type) ==
    CASE action_type = "search" -> "You've reached your daily search limit"
      [] action_type = "ai_suggestion" -> "You've reached your daily AI suggestion limit"
      [] action_type = "image_generation" -> "Daily image generation limit reached"

\* check_subscription_limits, auth.py:203-238: read the user, find the limit;
\* service is the state of the image service while the run lasts
page_check_user(p, action_type, service) ==
    /\ pc[p] = "idle"
    /\ session[p].authenticated
    /\ ActivityRows(user_activity) < MaxBurst
    /\ LET user_id == session[p].user.id
           user == SelectEq(users, "id", user_id)
           tier == user[1].subscription_tier
           refused == [op |-> "page", action_type |-> action_type,
                       service |-> service,
                       allowed |-> FALSE, logged |-> FALSE,
                       shown |-> limit_message(action_type)]
           frame == [op |-> "page", user_id |-> user_id,
                     action_type |-> action_type, service |-> service]
       IN  IF user = <<>>
           THEN Return(p, refused)
           ELSE IF tier \notin DOMAIN limits
           THEN Return(p, refused)
           ELSE IF daily_limit_of(limits[tier], action_type) = UNLIMITED
           THEN Goto(p, "page_log_activity", frame)
           ELSE Goto(p, "page_check_usage",
                     frame @@ [daily_limit |->
                                   daily_limit_of(limits[tier], action_type)])
    /\ UNCHANGED <<users, password_resets, user_activity, now, hist, session, feedback, custom_branding, quote_items, navigation>>

\* the store call the run makes next.  At "page_check_usage" it is the usage
\* select of check_subscription_limits (auth.py:240-244): the page stops with
\* its 'limit reached' message when the check is False.  At
\* "page_log_activity" it is the insert of log_user_activity as the page calls
\* it (product_sourcing.py:62, ai_suggestions.py:90,295); the image page first
\* calls generate_image and logs when what it returned is truthy
\* (ai_suggestions.py:290-300), and nothing catches what generate_image
\* raises.  For the action types the pages pass, daily_limit_of yields 0, so
\* the check is False at every count and the insert is not reached.
page_next_call(p) ==
    /\ pc[p] \in {"page_check_usage", "page_log_activity"}
    /\ LET result(allowed, logged, shown) ==
               [op |-> "page", action_type |-> loc[p].action_type,
                service |-> loc[p].service,
                allowed |-> allowed, logged |-> logged, shown |-> shown]
           image_url == generate_image(loc[p].service)
           logs == \/ loc[p].action_type # "image_generation"
                   \/ ~ image_url.raised /\ image_url.value # ""
       IN  IF pc[p] = "page_check_usage"
           THEN /\ IF usage_count(user_activity, loc[p].user_id,
                                  loc[p].action_type, today(now)) < loc[p].daily_limit
                   THEN Goto(p, "page_log_activity", loc[p])
                   ELSE Return(p, result(FALSE, FALSE,
                                         limit_message(loc[p].action_type)))
                /\ UNCHANGED user_activity
           ELSE /\ user_activity' =
                       IF logs
                       THEN AddRow(user_activity,
                                   [user_id |-> loc[p].user_id,
                                    action_type |-> loc[p].action_type,
                                    created_at |-> now])
                       ELSE user_activity
                /\ Return(p, result(TRUE, logs,
                          IF loc[p].action_type # "image_generation" THEN "results"
                          ELSE IF image_url.raised THEN "exception"
                          ELSE IF image_url.value # "" THEN image_url.value
                          ELSE "Failed to generate image"))
    /\ UNCHANGED <<users, password_resets, now, hist, session, feedback, custom_branding, quote_items, navigation>>

(***************************** store failures *******************************)
\* A store call that fails raises an exception and writes nothing.  Each
\* action below is one store call of a handler raising: the handler's except
\* branch where it has one, the exception leaving the function where it has
\* none.

\* an exception no handler of the function catches: the call ends with it
Propagate(p, op) ==
    Return(p, [op |-> op, raised |-> "store exception"])

\* auth.py:102-103: any of create_user's three store calls raises
create_user_raises(p) ==
    /\ pc[p] \in {"idle", "create_user_check_email", "create_user_insert"}
    /\ Return(p, [op |-> "create_user", ok |-> FALSE,
                  msg |-> "Error creating account"])
    /\ UNCHANGED <<users, password_resets, user_activity, now, hist, session, feedback, custom_branding, quote_items, navigation>>

\* auth.py:108,128-129: the select of authenticate_user raises
authenticate_user_select_raises(p, username, password) ==
    /\ pc[p] = "idle"
    /\ Return(p, [op |-> "authenticate_user", ok |-> FALSE, user |-> NoneUser,
                  msg |-> "Login error", username |-> username,
                  password |-> password, before |-> users])
    /\ UNCHANGED <<users, password_resets, user_activity, now, hist, session, feedback, custom_branding, quote_items, navigation>>

\* auth.py:122-124,128-129: the last_login update raises
authenticate_user_update_raises(p) ==
    /\ pc[p] = "authenticate_user_update"
    /\ Return(p, [op |-> "authenticate_user", ok |-> FALSE, user |-> NoneUser,
                  msg |-> "Login error", username |-> loc[p].username,
                  password |-> loc[p].password, before |-> loc[p].before])
    /\ UNCHANGED <<users, password_resets, user_activity, now, hist, session, feedback, custom_branding, quote_items, navigation>>

\* auth.py:157-158: the select or the insert of initiate_password_reset raises
initiate_password_reset_raises(p) ==
    /\ pc[p] \in {"idle", "initiate_password_reset_insert"}
    /\ Return(p, [op |-> "initiate_password_reset", ok |-> FALSE,
                  msg |-> "Reset error", reset_token |-> NoToken])
    /\ UNCHANGED <<users, password_resets, user_activity, now, hist, session, feedback, custom_branding, quote_items, navigation>>

\* auth.py:164,187-188: the token select of reset_password raises
reset_password_select_raises(p, reset_token) ==
    /\ pc[p] = "idle"
    /\ Return(p, [op |-> "reset_password", ok |-> FALSE, msg |-> "Reset error",
                  reset_token |-> reset_token, at |-> now,
                  after_success |-> reset_token \in hist.reset_done,
                  users_before |-> users,
                  resets_before |-> password_resets])
    /\ UNCHANGED <<users, password_resets, user_activity, now, hist, session, feedback, custom_branding, quote_items, navigation>>

\* auth.py:176-183,187-188: the password update or the used-flag update raises
reset_password_write_raises(p) ==
    /\ pc[p] \in {"reset_password_update_user", "reset_password_mark_used"}
    /\ Return(p, [op |-> "reset_password", ok |-> FALSE, msg |-> "Reset error",
                  reset_token |-> loc[p].reset_token, at |-> loc[p].at,
                  after_success |-> loc[p].after_success,
                  users_before |-> loc[p].users_before,
                  resets_before |-> loc[p].resets_before])
    /\ UNCHANGED <<users, password_resets, user_activity, now, hist, session, feedback, custom_branding, quote_items, navigation>>

\* auth.py:193,197-199,203-205: the select of get_user_subscription_info
\* raises; it returns None and the check returns False
check_subscription_limits_user_raises(p, user_id, action_type) ==
    /\ pc[p] = "idle"
    /\ Return(p, [op |-> "check_subscription_limits", value |-> FALSE,
                  user_id |-> user_id, action_type |-> action_type, at |-> now])
    /\ UNCHANGED <<users, password_resets, user_activity, now, hist, session, feedback, custom_branding, quote_items, navigation>>

\* auth.py:242: the usage select raises, outside any try
check_subscription_limits_usage_raises(p) ==
    /\ pc[p] = "check_subscription_limits_usage"
    /\ Propagate(p, "check_subscription_limits")
    /\ UNCHANGED <<users, password_resets, user_activity, now, hist, session, feedback, custom_branding, quote_items, navigation>>

\* auth.py:256-258: the insert raises; the error is shown and nothing returned
log_user_activity_raises(p) ==
    /\ pc[p] = "idle"
    /\ Return(p, [op |-> "log_user_activity", error |-> "Error logging activity"])
    /\ UNCHANGED <<users, password_resets, user_activity, now, hist, session, feedback, custom_branding, quote_items, navigation>>

\* admin_dashboard.py:444: the update raises, outside any try
update_user_status_raises(p) ==
    /\ pc[p] = "idle"
    /\ Propagate(p, "update_user_status")
    /\ UNCHANGED <<users, password_resets, user_activity, now, hist, session, feedback, custom_branding, quote_items, navigation>>

\* admin_dashboard.py:448: the update raises, outside any try
update_user_subscription_raises(p) ==
    /\ pc[p] = "idle"
    /\ Propagate(p, "update_user_subscription")
    /\ UNCHANGED <<users, password_resets, user_activity, now, hist, session, feedback, custom_branding, quote_items, navigation>>

\* admin_dashboard.py:452: the update raises, outside any try
toggle_admin_status_raises(p) ==
    /\ pc[p] = "idle"
    /\ Propagate(p, "toggle_admin_status")
    /\ UNCHANGED <<users, password_resets, user_activity, now, hist, session, feedback, custom_branding, quote_items, navigation>>

(***************************** the clock ************************************)
Tick ==
    /\ now < MaxTime
    /\ now' = now + 1
    /\ UNCHANGED <<users, password_resets, user_activity, pc, loc, ret, hist, session, feedback, custom_branding, quote_items, navigation>>

(***************************** specifications *******************************)
InitWith(table, t0) ==
    /\ users = table
    /\ password_resets = <<>>
    /\ user_activity = [r \in {} |-> 0]
    /\ now = t0
    /\ pc = [p \in Procs |-> "idle"]
    /\ loc = [p \in Procs |-> Idle]
    /\ ret = [p \in Procs |-> NoRet]
    /\ hist = [registered |-> {},
               reset_done |-> {},
               reset_ok |-> [t \in Tokens |-> 0],
               reset_writes |-> [t \in Tokens |-> 0],
               created |-> {},
               reset_to |-> [i \in 1 .. MaxUsers |-> "none"],
               granted |-> [p \in Procs |-> NoneUser],
               suspended |-> {},
               superseded |-> {},
               added_by |-> [p \in Procs |-> <<>>]]
    /\ session = [p \in Procs |-> NewSession]
    /\ feedback = <<[id |-> 1, status |-> "open"]>>
    /\ custom_branding = <<>>
    /\ quote_items = [p \in Procs |-> <<>>]
    /\ navigation = [p \in Procs |-> NewNavigation]


UserIds == {users[i].id : i \in DOMAIN users}

\* registration and the setup script, one call at a time, on an empty store
InitRegister == InitWith(<<>>, MaxTime - 1)

NextRegister ==
    \/ \E u \in RegUsernames, e \in RegEmails, pw \in Passwords, t \in Tiers :
          create_user_check_username(1, u, e, pw, t)
    \/ create_user_check_email(1)
    \/ create_user_insert(1)
    \/ create_test_users(1)

SpecRegister == InitRegister /\ [][NextRegister]_vars

\* login and the admin's suspend/activate, one call at a time, on the users
\* the setup script created
\* the clock starts k hours before it stops
InitSeeded(k) == InitWith(SeededUsers, MaxTime - k)

NextLogin ==
    \/ \E u \in LoginUsernames, pw \in Passwords : authenticate_user_select(1, u, pw)
    \/ authenticate_user_update(1)
    \/ \E id \in UserIds, st \in {"suspended", "active"} : update_user_status(1, id, st)
    \/ Tick

SpecLogin == InitSeeded(1) /\ [][NextLogin]_vars

\* limit checks and activity logging, one call at a time
NextLimits ==
    \/ \E id \in LimitUsers, a \in LimitActions : check_subscription_limits_user(1, id, a)
    \/ check_subscription_limits_usage(1)
    \/ \E id \in LimitUsers, a \in LimitActions : log_user_activity(1, id, a)
    \/ Tick

SpecLimits == InitSeeded(1) /\ [][NextLimits]_vars

\* password resets, one call at a time
NextReset ==
    \/ \E e \in ResetEmails : initiate_password_reset_select(1, e)
    \/ initiate_password_reset_insert(1)
    \/ \E sent \in BOOLEAN : initiate_password_reset_send(1, sent)
    \/ \E t \in Tokens, pw \in Passwords : reset_password_select(1, t, pw)
    \/ reset_password_update_user(1)
    \/ reset_password_mark_used(1)
    \/ Tick

SpecReset == InitSeeded(2) /\ [][NextReset]_vars

\* password resets by callers that interleave between their store calls; the
\* reset links are requested by the first caller, within one hour
NextResetConc ==
    \/ \E e \in ResetEmails : initiate_password_reset_select(1, e)
    \/ initiate_password_reset_insert(1)
    \/ \E sent \in BOOLEAN : initiate_password_reset_send(1, sent)
    \/ \E p \in Procs :
        \/ \E t \in Tokens, pw \in Passwords : reset_password_select(p, t, pw)
        \/ reset_password_update_user(p)
        \/ reset_password_mark_used(p)

SpecResetConc == InitSeeded(0) /\ [][NextResetConc]_vars

\* registrations by callers that interleave between their store calls
NextRegisterConc ==
    \E p \in Procs :
        \/ \E u \in RegUsernames, e \in RegEmails :
              create_user_check_username(p, u, e, "hello", "basic")
        \/ create_user_check_email(p)
        \/ create_user_insert(p)

SpecRegisterConc == InitRegister /\ [][NextRegisterConc]_vars

\* the handlers of the user interactions, one call at a time, each store call
\* completing or raising
NextFaults ==
    \/ create_user_check_username(1, "alice", "alice@example.com", "hello", "basic")
    \/ create_user_check_email(1)
    \/ create_user_insert(1)
    \/ create_user_raises(1)
    \/ authenticate_user_select(1, "admin", "hello")
    \/ authenticate_user_update(1)
    \/ authenticate_user_select_raises(1, "admin", "hello")
    \/ authenticate_user_update_raises(1)
    \/ initiate_password_reset_select(1, "admin@procurement.ai")
    \/ initiate_password_reset_insert(1)
    \/ \E sent \in BOOLEAN : initiate_password_reset_send(1, sent)
    \/ initiate_password_reset_raises(1)
    \/ \E t \in Tokens : reset_password_select(1, t, "demo123")
    \/ /\ \A t \in Tokens : hist.reset_writes[t] < MaxWrites
       /\ reset_password_update_user(1)
    \/ reset_password_mark_used(1)
    \/ \E t \in Tokens : reset_password_select_raises(1, t)
    \/ reset_password_write_raises(1)
    \/ check_subscription_limits_user(1, 2, "image_generations")
    \/ check_subscription_limits_usage(1)
    \/ check_subscription_limits_user_raises(1, 2, "image_generations")
    \/ check_subscription_limits_usage_raises(1)
    \/ /\ ActivityRows(user_activity) < MaxRows
       /\ log_user_activity(1, 2, "image_generations")
    \/ log_user_activity_raises(1)
    \/ \E st \in {"suspended", "active"} : update_user_status(1, 2, st)
    \/ update_user_status_raises(1)
    \/ \E t \in Tiers : update_user_subscription(1, 2, t)
    \/ update_user_subscription_raises(1)
    \/ \E b \in BOOLEAN : toggle_admin_status(1, 2, b)
    \/ toggle_admin_status_raises(1)

SpecFaults == InitSeeded(0) /\ [][NextFaults]_vars

\* one browser session: logging in and out, runs of the main application and
\* the admin's actions on the selected user, each store call of the login
\* completing or raising
NextSession ==
    \/ \E u \in LoginUsernames, pw \in Passwords : show_login_page_login(1, u, pw)
    \/ show_login_page_login_raises(1)
    \/ show_login_page_last_login(1)
    \/ show_login_page_last_login_raises(1)
    \/ show_login_page_log_activity(1)
    \/ show_login_page_log_activity_raises(1)
    \/ show_main_app_logout(1)
    \/ \E page \in NavPages : main(1, page)
    \/ /\ admin_dashboard_open(1)
       /\ \E id \in SelectedUsers, st \in {"suspended", "active"} :
             update_user_status(1, id, st)
    \/ /\ admin_dashboard_open(1)
       /\ \E id \in SelectedUsers, t \in Tiers : update_user_subscription(1, id, t)
    \/ /\ admin_dashboard_open(1)
       /\ \E id \in SelectedUsers :
             toggle_admin_status(1, id, ~ SelectEq(users, "id", id)[1].is_admin)
    \/ /\ admin_dashboard_open(1)
       /\ \E st \in {"flagged", "resolved"} : update_feedback_status(1, 1, st)

SpecSession == InitSeeded(0) /\ [][NextSession]_vars

\* registration, the setup script and logins, one call at a time, on an empty
\* store
NextRoundTrip ==
    \/ \E u \in RegUsernames, e \in RegEmails, pw \in Passwords, t \in Tiers :
          create_user_check_username(1, u, e, pw, t)
    \/ create_user_check_email(1)
    \/ create_user_insert(1)
    \/ create_test_users(1)
    \/ \E u \in RegUsernames, pw \in Passwords : authenticate_user_select(1, u, pw)
    \/ authenticate_user_update(1)

SpecRoundTrip == InitRegister /\ [][NextRoundTrip]_vars

\* password resets, logins and the admin's suspend/activate, one call at a
\* time, within the hour of the tokens
NextResetLogin ==
    \/ \E e \in ResetEmails : initiate_password_reset_select(1, e)
    \/ initiate_password_reset_insert(1)
    \/ \E sent \in BOOLEAN : initiate_password_reset_send(1, sent)
    \/ \E t \in Tokens, pw \in Passwords : reset_password_select(1, t, pw)
    \/ reset_password_update_user(1)
    \/ reset_password_mark_used(1)
    \/ \E u \in LoginUsernames, pw \in Passwords : authenticate_user_select(1, u, pw)
    \/ authenticate_user_update(1)
    \/ \E id \in SelectedUsers, st \in {"suspended", "active"} :
          update_user_status(1, id, st)

SpecResetLogin == InitSeeded(0) /\ [][NextResetLogin]_vars

\* (the image service working)
\* browser sessions of the basic and the premium test user that log in and
\* use the quota pages, interleaving between their store calls
NextQuotaConc ==
    \E p \in Procs :
        \/ \E u \in QuotaUsernames : show_login_page_login(p, u, "hello")
        \/ show_login_page_last_login(p)
        \/ show_login_page_log_activity(p)
        \/ \E a \in PageActions : page_check_user(p, a, "image")
        \/ page_next_call(p)

SpecQuotaConc == InitSeeded(0) /\ [][NextQuotaConc]_vars

(***************************** claims ***************************************)
UniqueUsernames ==
    \A i, j \in DOMAIN users : i # j => users[i].username # users[j].username

UniqueEmails ==
    \A i, j \in DOMAIN users : i # j => users[i].email # users[j].email

\* the row authenticate_user read for the username of the last login attempt
\* of caller p (user.data[0]), in the table as it was when the attempt began
AttemptRows(p) == SelectEq(ret[p].before, "username", ret[p].username)
AttemptRow(p) == AttemptRows(p)[1]
IsAttempt(p) == ret[p].op = "authenticate_user"
HashMatches(p) == hash_password(ret[p].password) = AttemptRow(p).password_hash

C2_InactiveRejected ==
    \A p \in Procs :
        (/\ IsAttempt(p) /\ AttemptRows(p) # <<>>
         /\ AttemptRow(p).subscription_status # "active")
        => /\ ret[p].ok = FALSE
           /\ ret[p].user = NoneUser
           /\ \A i \in DOMAIN users : users[i].last_login = ret[p].before[i].last_login

\* a suspended user who logged in before presents the correct password
C2_Witness ==
    /\ IsAttempt(1) /\ AttemptRows(1) # <<>>
    /\ AttemptRow(1).subscription_status = "suspended"
    /\ AttemptRow(1).last_login # NoneTime
    /\ HashMatches(1)
    /\ ret[1].msg = "Account suspended or inactive"

IsCheck(p) == ret[p].op = "check_subscription_limits"

\* the tier of the user of caller p's last limit check
CheckedTier(p) == SelectEq(users, "id", ret[p].user_id)[1].subscription_tier

\* N: that user's rows of the checked action created on the day of the check
CheckedToday(p) ==
    RowCount(user_activity,
             {r \in DOMAIN user_activity :
                 /\ r.user_id = ret[p].user_id
                 /\ r.action_type = ret[p].action_type
                 /\ r.created_at \div HoursPerDay = ret[p].at \div HoursPerDay})

\* the daily quotas of the limited tiers: searches, AI suggestions and image
\* generations, for the action types the pages pass and for the table's own
Quota ==
    [basic   |-> [search |-> 10, ai_suggestion |-> 5, image_generation |-> 3,
                  image_generations |-> 3],
     premium |-> [search |-> 100, ai_suggestion |-> 50, image_generation |-> 25,
                  image_generations |-> 25]]

\* C3: for a basic or premium user, check_subscription_limits returns False
\* whenever the number N of the user's rows of the action created today has
\* reached the tier's daily threshold for it.
C3_FalseAtThreshold ==
    \A p \in Procs :
        (/\ IsCheck(p)
         /\ CheckedTier(p) \in {"basic", "premium"}
         /\ CheckedToday(p) >= Quota[CheckedTier(p)][ret[p].action_type])
        => ret[p].value = FALSE

\* a premium user with 25 image generations today, a row of yesterday beside
\* them, is refused
C3_Witness ==
    /\ IsCheck(1)
    /\ CheckedTier(1) = "premium"
    /\ ret[1].action_type = "image_generation"
    /\ CheckedToday(1) >= 25
    /\ \E r \in DOMAIN user_activity : r.created_at < today(ret[1].at)
    /\ ret[1].value = FALSE

\* C4: for a basic or premium user, check_subscription_limits called with the
\* action type a page passes returns True whenever today's count of rows of
\* that type is below the tier's quota for the action.
C4_TrueBelowQuota ==
    \A p \in Procs :
        (/\ IsCheck(p)
         /\ ret[p].action_type \in PageActions
         /\ CheckedTier(p) \in {"basic", "premium"}
         /\ CheckedToday(p) < Quota[CheckedTier(p)][ret[p].action_type])
        => ret[p].value = TRUE

\* C5: for an enterprise user, check_subscription_limits returns True for every
\* action the pages check, whatever the number of rows logged today.
C5_EnterpriseUnlimited ==
    \A p \in Procs :
        (/\ IsCheck(p)
         /\ ret[p].action_type \in PageActions
         /\ CheckedTier(p) = "enterprise")
        => ret[p].value = TRUE

IsReset(p) == ret[p].op = "reset_password"

\* the rows of password_resets holding the token of caller p's last
\* reset_password call, as they were when the call began
PresentedRows(p) == SelectEq(ret[p].resets_before, "reset_token", ret[p].reset_token)

HashesUnchanged(p) ==
    \A i \in DOMAIN users :
        users[i].password_hash = ret[p].users_before[i].password_hash

\* C6: once reset_password has returned success for a token, every later
\* reset_password call with that token returns failure ('Invalid or expired
\* reset token') and leaves every password_hash unchanged.
C6_TokenSingleUse ==
    \A p \in Procs :
        IsReset(p) /\ ret[p].after_success =>
            /\ ret[p].ok = FALSE
            /\ ret[p].msg = "Invalid or expired reset token"
            /\ HashesUnchanged(p)

\* a second call with a token that already reset a password, within its hour
C6_Witness ==
    /\ IsReset(1) /\ ret[1].after_success
    /\ PresentedRows(1) # <<>>
    /\ ret[1].at <= PresentedRows(1)[1].expires_at
    /\ ~ ret[1].ok

\* C7: of the reset_password calls that present one token, in any interleaving,
\* at most one returns success and the password is written at most once.
C7_OneSuccessPerToken ==
    \A t \in Tokens : hist.reset_ok[t] <= 1 /\ hist.reset_writes[t] <= 1

C9_UniqueAfterSequentialRun ==
    pc[1] = "idle" => UniqueUsernames /\ UniqueEmails

\* C10: of the create_user calls that interleave with the same username or the
\* same email, at most one inserts a row: no two rows inserted by create_user
\* share a username or an email.
C10_OneInsertPerIdentity ==
    \A i, j \in hist.registered :
        i # j => /\ users[i].username # users[j].username
                 /\ users[i].email # users[j].email

\* C11: the user_activity log is append-only: no step of the application
\* removes or changes a row that is there (for every user, action type and
\* timestamp the rows only grow in number), and a log_user_activity call adds
\* at most one row.
C11_AppendOnly ==
    [][/\ \A r \in DOMAIN user_activity :
             /\ r \in DOMAIN user_activity'
             /\ user_activity'[r] >= user_activity[r]
       /\ ActivityRows(user_activity') <= ActivityRows(user_activity) + 1]_vars

\* a call has logged a row while a row of another kind, logged before it, is
\* in the table
C11_Witness ==
    /\ ret[1].op = "log_user_activity"
    /\ \E r, q \in DOMAIN user_activity : r # q

\* C12: every failure of a store call made during a user interaction is caught
\* in the operation that makes the call and comes back as a failure result or
\* message: no call ends with the store's exception leaving the operation.
C12_NoStoreExceptionPropagates ==
    \A p \in Procs : "raised" \notin DOMAIN ret[p]

\* a run of main() that rendered the main application
IsRender(p) == ret[p].op = "main" /\ ret[p].shown = "main_app"

\* the sidebar's name for the action each page checks
SidebarAction ==
    [search |-> "searches", ai_suggestion |-> "ai_suggestions",
     image_generation |-> "image_generations"]

\* C13: the limits shown agree with those enforced: for the user of a session
\* and every quota action, the limit and the usage count the sidebar displays
\* equal the threshold and the count check_subscription_limits compares when a
\* page checks that action.
C13_SidebarAgreesWithCheck ==
    \A p \in Procs :
        IsRender(p) =>
            \A a \in PageActions :
                LET stored == SelectEq(users, "id", session[p].user.id)[1]
                    daily_limit == daily_limit_of(limits[stored.subscription_tier], a)
                    line == ret[p].sidebar[SidebarAction[a]]
                IN  /\ line.limit = daily_limit
                    /\ daily_limit # UNLIMITED =>
                          line.usage = usage_count(user_activity, stored.id, a,
                                                   today(now))

AdminOps == {"update_user_status", "update_user_subscription",
             "toggle_admin_status", "update_feedback_status"}

\* C14: no admin mutation (suspend, activate, change tier, toggle admin,
\* moderate feedback) is performed, and the 'Admin Panel' page is neither
\* offered nor routed to the admin dashboard, unless the session holds a user
\* whose is_admin flag is true.
C14_AdminOnly ==
    \A p \in Procs :
        /\ ret[p].op \in AdminOps =>
              /\ session[p].authenticated
              /\ session[p].user # NoneUser
              /\ session[p].user.is_admin
        /\ (IsRender(p) /\ ("Admin Panel" \in ret[p].offered \/ ret[p].admin_dashboard))
              => session[p].user.is_admin

\* testuser1, made an admin, has logged in and suspended or activated a user
C14_Witness ==
    /\ ret[1].op = "update_user_status"
    /\ session[1].authenticated
    /\ session[1].user.username = "testuser1"

IsLogin(p) == ret[p].op = "login"

\* the users table after a login of caller p: the table as it was, the
\* last_login of the row the login returned set to the time of the login
LastLoginWritten(p) ==
    /\ Len(users) = Len(ret[p].users_before)
    /\ \A i \in DOMAIN users :
          users[i] = IF ret[p].users_before[i].id = ret[p].user.id
                     THEN [ret[p].users_before[i] EXCEPT !.last_login = ret[p].login_at]
                     ELSE ret[p].users_before[i]

OneLoginRowAdded(p) ==
    user_activity = AddRow(ret[p].activity_before,
                           [user_id |-> ret[p].user.id, action_type |-> "login",
                            created_at |-> ret[p].logged_at])

LoginChangedNothing(p) ==
    /\ users = ret[p].users_before
    /\ user_activity = ret[p].activity_before
    /\ ~ session[p].authenticated

\* C19 as stated: a successful login updates last_login of exactly the
\* authenticated user and appends exactly one 'login' activity row for that
\* user; a failed login changes no users row, appends no activity row and
\* leaves the session unauthenticated.
C19_LoginAllOrNothing ==
    \A p \in Procs :
        IsLogin(p) =>
            IF ret[p].ok
            THEN LastLoginWritten(p) /\ OneLoginRowAdded(p)
            ELSE LoginChangedNothing(p)

\* C19 amended: a successful login updates last_login of exactly the
\* authenticated user and appends exactly one 'login' activity row for that
\* user when the insert of log_user_activity completes, and no row when that
\* insert fails; a failed login (unknown username, wrong password, non-active
\* status, or a store call of authenticate_user failing) changes no users row,
\* appends no activity row and leaves the session unauthenticated.
C19_LoginAllOrNothingUnlessLogFails ==
    \A p \in Procs :
        IsLogin(p) =>
            IF ret[p].ok
            THEN /\ LastLoginWritten(p)
                 /\ session[p].authenticated
                 /\ IF ret[p].logged THEN OneLoginRowAdded(p)
                    ELSE user_activity = ret[p].activity_before
            ELSE LoginChangedNothing(p)

\* a login that succeeded, wrote a last_login that was not there and added its
\* row to a log that held a 'login' row already
C19_Witness ==
    /\ IsLogin(1) /\ ret[1].ok /\ ret[1].logged
    /\ users # ret[1].users_before
    /\ DOMAIN ret[1].activity_before # {}
    /\ OneLoginRowAdded(1)

\* C20: in every session state, authenticated = True implies the session holds
\* the user record the last successful authenticate_user returned (a row of an
\* active user); the main application is rendered only in such a state, the
\* login page in every other; and Logout sets authenticated to False and user
\* to None, so that the next run shows the login page.
C20_SessionInvariant ==
    \A p \in Procs :
        /\ session[p].authenticated =>
              /\ session[p].user # NoneUser
              /\ session[p].user = hist.granted[p]
              /\ session[p].user.subscription_status = "active"
              /\ \E i \in DOMAIN users :
                    /\ users[i].id = session[p].user.id
                    /\ users[i].username = session[p].user.username
        /\ IsRender(p) => session[p].authenticated /\ session[p].user # NoneUser
        /\ (ret[p].op = "main" /\ ~ session[p].authenticated)
              => ret[p].shown = "login_page"
        /\ ret[p].op = "logout" => session[p] = NewSession

\* the run after a login and a Logout shows the login page
C20_Witness ==
    /\ ret[1].op = "main" /\ ret[1].shown = "login_page"
    /\ hist.granted[1] # NoneUser
    /\ session[1] = NewSession

\* C15: registration followed by login round-trips: once create_user(u, e, p,
\* tier) has returned success, authenticate_user(u, q) succeeds exactly for the
\* passwords q whose hash is that of p, and the record it returns has the
\* username, email and tier given, subscription_status 'active' and is_admin
\* False.
C15_RegisterThenLogin ==
    \A p \in Procs :
        IsAttempt(p) =>
            \A c \in hist.created :
                c.username = ret[p].username =>
                    /\ ret[p].ok <=> hash_password(ret[p].password) =
                                     hash_password(c.password)
                    /\ ret[p].ok =>
                          /\ ret[p].user.username = c.username
                          /\ ret[p].user.email = c.email
                          /\ ret[p].user.subscription_tier = c.subscription_tier
                          /\ ret[p].user.subscription_status = "active"
                          /\ ret[p].user.is_admin = FALSE

\* alice, registered with the premium plan, has logged in with her password
C15_Witness ==
    /\ IsAttempt(1) /\ ret[1].ok
    /\ ret[1].username = "alice"
    /\ ret[1].user.subscription_tier = "premium"
    /\ \E c \in hist.created : c.username = "alice" /\ c.password = ret[1].password

IsCreate(p) == ret[p].op = "create_user"

\* C16: create_user rejects duplicates without side effects: when the username
\* already exists it returns (False, 'Username already exists'), otherwise when
\* the email already exists it returns (False, 'Email already registered'),
\* and in both cases the users table is unchanged.
C16_DuplicatesRejected ==
    \A p \in Procs :
        IsCreate(p) =>
            LET name_taken == SelectEq(ret[p].before, "username", ret[p].username) # <<>>
                email_taken == SelectEq(ret[p].before, "email", ret[p].email) # <<>>
            IN  /\ name_taken =>
                      /\ ret[p].ok = FALSE
                      /\ ret[p].msg = "Username already exists"
                      /\ users = ret[p].before
                /\ (~ name_taken /\ email_taken) =>
                      /\ ret[p].ok = FALSE
                      /\ ret[p].msg = "Email already registered"
                      /\ users = ret[p].before

\* a registration with a new username and an email a row already holds
C16_Witness ==
    /\ IsCreate(1)
    /\ ret[1].msg = "Email already registered"
    /\ SelectEq(ret[1].before, "username", ret[1].username) = <<>>
    /\ users = ret[1].before /\ users # <<>>

\* the user the token of caller p's last reset_password call was issued to
ResetUser(p) == PresentedRows(p)[1].user_id

\* C17: after reset_password(token, p') has returned success for a token
\* issued to user u, the row of u holds the hash of p', no other field of u and
\* no other user's row has been changed by the reset, and from then on
\* authenticate_user(u.username, q) succeeds for q = p' when u is active and
\* fails for every q whose hash differs from that of p' (the previous password
\* among them).
C17_ResetThenLogin ==
    \A p \in Procs :
        /\ (IsReset(p) /\ ret[p].ok) =>
              /\ Len(users) = Len(ret[p].users_before)
              /\ \A i \in DOMAIN users :
                    IF ret[p].users_before[i].id = ResetUser(p)
                    THEN /\ users[i].password_hash =
                                hash_password(hist.reset_to[ResetUser(p)])
                         /\ users[i] = [ret[p].users_before[i] EXCEPT
                                           !.password_hash = users[i].password_hash]
                    ELSE users[i] = ret[p].users_before[i]
        /\ (/\ IsAttempt(p) /\ AttemptRows(p) # <<>>
            /\ hist.reset_to[AttemptRow(p).id] # "none") =>
              LET new_hash == hash_password(hist.reset_to[AttemptRow(p).id])
              IN  /\ (/\ hash_password(ret[p].password) = new_hash
                      /\ AttemptRow(p).subscription_status = "active") => ret[p].ok
                  /\ hash_password(ret[p].password) # new_hash => ~ ret[p].ok

\* testuser1, whose password was reset from 'hello' to 'demo123', presents the
\* old password and is turned away
C17_Witness ==
    /\ IsAttempt(1) /\ AttemptRows(1) # <<>>
    /\ ret[1].username = "testuser1"
    /\ hist.reset_to[AttemptRow(1).id] = "demo123"
    /\ ret[1].password = "hello"
    /\ ~ ret[1].ok

IsPage(p) == ret[p].op = "page"

NextPrivileges ==
    \E p \in Procs :
        \/ \E u \in PrivilegeUsernames : show_login_page_login(p, u, "hello")
        \/ show_login_page_last_login(p)
        \/ show_login_page_log_activity(p)
        \/ show_main_app_logout(p)
        \/ \E page \in NavPages : main(p, page)
        \/ \E id \in SelectedUsers, button \in UserActions :
              show_user_management(p, id, button)

SpecPrivileges == InitSeeded(0) /\ [][NextPrivileges]_vars

\* the branding page of two sessions that save and load configurations of
\* the same users, each store call of a save completing or raising
NextBranding ==
    \E p \in Procs :
        \/ \E id \in BrandUsers, name \in BrandNames :
              \/ save_brand_configuration_deactivate(p, id, name)
              \/ save_brand_configuration_raises(p, id, name)
        \/ save_brand_configuration_insert(p)
        \/ \E logged \in BOOLEAN : save_brand_configuration_log(p, logged)
        \/ \E id \in BrandUsers : load_user_branding(p, id)

SpecBranding == InitSeeded(0) /\ [][NextBranding]_vars

\* one browser session in which the basic and the premium test user log in
\* and out in turn and add products and suggestions to the quote
NextQuote ==
    \/ \E u \in QuotaUsernames : show_login_page_login(1, u, "hello")
    \/ show_login_page_last_login(1)
    \/ show_login_page_log_activity(1)
    \/ show_main_app_logout(1)
    \/ \E product \in QuoteNames, logged \in BOOLEAN : add_to_quote(1, product, logged)
    \/ \E suggestion \in QuoteNames, logged \in BOOLEAN :
          add_suggestion_to_quote(1, suggestion, logged)

SpecQuote == InitSeeded(0) /\ [][NextQuote]_vars

\* one browser session: logging in and out, runs of the main application
\* and the Quick Actions of the dashboard
NextQuick ==
    \/ \E u \in LoginUsernames, pw \in Passwords : show_login_page_login(1, u, pw)
    \/ show_login_page_last_login(1)
    \/ show_login_page_log_activity(1)
    \/ show_main_app_logout(1)
    \/ \E page \in NavPages : main(1, page)
    \/ \E button \in DOMAIN quick_action_page : show_dashboard_quick_action(1, button)
    \/ show_main_app_rerun(1)

SpecQuick == InitSeeded(0) /\ [][NextQuick]_vars

\* calls of the suggestion generator for industries with and without
\* templates
NextSuggestions ==
    \E industry \in Industries, use_case \in UseCases,
       budget_range \in BudgetRanges, quantity \in Quantities :
        generate_mock_suggestions(1, industry, use_case, budget_range, quantity)

SpecSuggestions == InitSeeded(0) /\ [][NextSuggestions]_vars

\* one browser session of the basic or the premium test user that logs in
\* and out and presses the buttons of the quota pages, 'Generate Image' among
\* them, whatever the image service does
NextImage ==
    \/ \E u \in QuotaUsernames, pw \in Passwords : show_login_page_login(1, u, pw)
    \/ show_login_page_last_login(1)
    \/ show_login_page_log_activity(1)
    \/ show_main_app_logout(1)
    \/ \E a \in PageActions, service \in ImageService : page_check_user(1, a, service)
    \/ page_next_call(1)

SpecImage == InitSeeded(0) /\ [][NextImage]_vars

(***************************** C21 ******************************************)
\* C21: from the admin's update_user_status(u, 'suspended') until the next
\* update_user_status(u, 'active') the row of u has a status other than
\* 'active' (no other step changes any row's subscription_status, and a
\* status update changes subscription_status of u and nothing else), every
\* authenticate_user call for such a row with the correct password fails with
\* 'Account suspended or inactive', and for an active row the correct
\* password authenticates.
C21_SuspendUntilActivated ==
    /\ [](\A p \in Procs :
            (IsAttempt(p) /\ AttemptRows(p) # <<>> /\ HashMatches(p)) =>
                IF AttemptRow(p).subscription_status = "active"
                THEN ret[p].ok /\ ret[p].user = AttemptRow(p)
                ELSE ~ ret[p].ok /\ ret[p].msg = "Account suspended or inactive")
    /\ [][/\ Len(users') = Len(users)
          /\ \A i \in DOMAIN users :
                users'[i].subscription_status # users[i].subscription_status =>
                    \E p \in Procs :
                        /\ ret'[p].op = "update_user_status"
                        /\ ret'[p].user_id = users[i].id
                        /\ ret'[p].status = users'[i].subscription_status
          /\ \A p \in Procs :
                (pc[p] = "idle" /\ pc'[p] = "idle" /\ ret'[p] # ret[p]
                 /\ ret'[p].op = "update_user_status") =>
                    /\ users' = [i \in DOMAIN users |->
                                   IF users[i].id = ret'[p].user_id
                                   THEN [users[i] EXCEPT
                                           !.subscription_status = ret'[p].status]
                                   ELSE users[i]]
                    /\ UNCHANGED <<password_resets, user_activity, feedback,
                                   session, custom_branding, quote_items, navigation>>]_vars

\* testuser1, suspended by the admin at some time and activated again, has
\* logged in with the correct password
C21_Witness ==
    /\ IsAttempt(1) /\ AttemptRows(1) # <<>> /\ HashMatches(1)
    /\ ret[1].username = "testuser1"
    /\ AttemptRow(1).id \in hist.suspended
    /\ ret[1].ok

(***************************** C22 ******************************************)
\* the row of the users table, as it is in table, of the user with the id
StoredUser(table, id) == SelectEq(table, "id", id)[1]

\* C22: whenever a session executes an admin mutation its user has is_admin =
\* True in the users table at that moment, and whenever a session runs the
\* main application its user has subscription_status 'active' in the users
\* table at that moment.
C22_CachedPrivilegesWithinStore ==
    /\ [](\A p \in Procs :
            ret[p].op = "show_user_management" =>
                StoredUser(ret[p].users_before, ret[p].actor).is_admin)
    /\ [][\A p \in Procs :
            (ret'[p] # ret[p] /\ ret'[p].op = "main"
             /\ ret'[p].shown = "main_app") =>
                StoredUser(users, session[p].user.id).subscription_status
                    = "active"]_vars

(***************************** C23 ******************************************)
\* the user's rows in the table, oldest first
BrandingOf(table, user_id) == SelectEq(table, "user_id", user_id)

\* C23: after any sequence of save_brand_configuration calls (failing and
\* concurrent ones included) each user has at most one custom_branding row
\* with is_active = True, and once a user has a saved configuration
\* load_user_branding returns the one saved last.
C23_OneActiveBranding ==
    /\ \A id \in BrandUsers : Cardinality(ActiveBranding(custom_branding, id)) <= 1
    /\ \A p \in Procs :
          (/\ ret[p].op = "load_user_branding"
           /\ BrandingOf(ret[p].table, ret[p].user_id) # <<>>) =>
              LET saved == BrandingOf(ret[p].table, ret[p].user_id)
              IN  ret[p].branding = saved[Len(saved)]

(***************************** C24 ******************************************)
\* C24: whenever reset_password returns failure, a store call failing between
\* the password update and the mark-used update included, every password_hash
\* and every token's used flag are as they were when the call began.
C24_FailedResetChangesNothing ==
    \A p \in Procs :
        (IsReset(p) /\ ~ ret[p].ok) =>
            /\ HashesUnchanged(p)
            /\ \A i \in DOMAIN ret[p].resets_before :
                  password_resets[i].used = ret[p].resets_before[i].used

(***************************** C25 ******************************************)
\* the rows of the table holding a token that can still reset a password at
\* time t: not used and not expired
UsableRows(table, reset_token, t) ==
    {i \in DOMAIN table : /\ table[i].reset_token = reset_token
                          /\ ~ table[i].used
                          /\ ~ token_expired(table[i], t)}

\* C25: whenever initiate_password_reset returns failure (unknown email,
\* e-mail configuration missing, sending fails, a store call raising), no
\* usable reset token made for that request is stored in password_resets.
C25_FailedRequestLeavesNoToken ==
    \A p \in Procs :
        (ret[p].op = "initiate_password_reset" /\ ~ ret[p].ok) =>
            UsableRows(password_resets, ret[p].reset_token, now) = {}

(***************************** C26 ******************************************)
\* C26: after a successful reset_password for user u, every later
\* reset_password with another token that had been issued to u before that
\* reset fails.
C26_OtherTokensVoided ==
    \A p \in Procs :
        (IsReset(p) /\ ret[p].reset_token \in hist.superseded) => ~ ret[p].ok

C29_QuickActionOpensPage ==
    \A p \in Procs :
        ret[p].op = "quick_action" => ret[p].page = quick_action_page[ret[p].button]

(***************************** C30 ******************************************)
IsSuggestions(p) == ret[p].op = "generate_mock_suggestions"

\* C30: generate_mock_suggestions returns exactly 5 suggestions for every
\* industry and use case, with pairwise distinct names and an image_prompt on
\* each; for an industry without a template entry the suggestions come from
\* the generic template and their price_range is the caller's budget_range;
\* and building the variants leaves the template entries as they were.
C30_FiveDistinctSuggestions ==
    \A p \in Procs :
        IsSuggestions(p) =>
            LET suggestions == ret[p].suggestions
            IN  /\ Len(suggestions) = 5
                /\ \A j, k \in DOMAIN suggestions :
                      j # k => suggestions[j]["name"] # suggestions[k]["name"]
                /\ \A k \in DOMAIN suggestions :
                      "image_prompt" \in DOMAIN suggestions[k]
                /\ ret[p].industry \notin DOMAIN product_templates =>
                      \A k \in DOMAIN suggestions :
                          /\ suggestions[k]["price_range"] = ret[p].budget_range
                          /\ SubSeq(suggestions[k]["name"], 1, 3) =
                                <<"Custom ", ret[p].use_case, " Solution">>
                /\ ret[p].templates =
                      templates_for(ret[p].industry, ret[p].use_case,
                                    ret[p].budget_range)

\* a call for an industry without templates has returned; its last suggestion
\* is the fifth variant of the generic template
C30_Witness ==
    /\ IsSuggestions(1)
    /\ ret[1].industry = "Healthcare"
    /\ ret[1].suggestions[5]["name"] =
          <<"Custom ", ret[1].use_case, " Solution", " - Variant ", "5">>

====
